---- MODULE Spec2Model ----
(***************************************************************************)
(* Model of the stepper motor speed ramp generator (src/src/lib.rs).       *)
(*                                                                         *)
(* The delay fields of Stepgen are u32 values in 16.16 format and the      *)
(* setters compute in u64.  TLC's integers are 32-bit signed, so these     *)
(* quantities are carried at their true width as multi-limb naturals       *)
(* (little-endian sequences of limbs below Base, no leading zero limb).    *)
(* The positions (current_step, target_step, est_stop) are u32 in the      *)
(* source; the model carries them as integers of StepBits bits, so the     *)
(* largest step is 2^StepBits - 1 and a position wraps there.  speed, u32  *)
(* in the source, changes by one per call of the producer and is carried   *)
(* at SpeedBits bits, a width it cannot fill in the calls of a behaviour.  *)
(***************************************************************************)
EXTENDS Integers, Sequences, FiniteSets, TLC

-----------------------------------------------------------------------------
(* Bounds of the model *)

\* width of the step counters of the model (u32 in the source)
StepBits == 3

\* the producer returns at most MaxProduced delays in a behaviour
MaxProduced == 9

\* width of speed in the model (u32 in the source)
SpeedBits == 16

-----------------------------------------------------------------------------------------------------------------------------------------------------
(* Multi-limb naturals: the u32 / u64 arithmetic of the source.  The       *)
(* recursive helpers are functions, so that TLC evaluates their arguments  *)
(* once, before the call.                                                  *)

Base == 2^15

Big == Seq(Nat)

Zero == <<>>

Trim[s \in Big] ==
    IF s = <<>> THEN s
    ELSE IF s[Len(s)] = 0 THEN Trim[SubSeq(s, 1, Len(s) - 1)] ELSE s

FromInt[n \in Nat] == IF n = 0 THEN <<>> ELSE <<n % Base>> \o FromInt[n \div Base]

\* a TLC integer n >= 0 as a multi-limb natural
U(n) == FromInt[n]

\* a multi-limb natural below 2^31 as a TLC integer
ToInt[x \in Big] == IF x = <<>> THEN 0 ELSE x[1] + Base * ToInt[Tail(x)]

AddC[x \in Big, y \in Big, c \in Nat] ==
    IF x = <<>> /\ y = <<>> THEN (IF c = 0 THEN <<>> ELSE <<c>>)
    ELSE IF x = <<>> THEN AddC[y, x, c]
    ELSE IF y = <<>>
    THEN <<(x[1] + c) % Base>> \o AddC[Tail(x), y, (x[1] + c) \div Base]
    ELSE <<(x[1] + y[1] + c) % Base>>
             \o AddC[Tail(x), Tail(y), (x[1] + y[1] + c) \div Base]

Add(x, y) == AddC[x, y, 0]

\* x < y, comparing limbs i, i - 1, ..., 1 of two naturals of the same length
LtAt[x \in Big, y \in Big, i \in Nat] ==
    IF i = 0 THEN FALSE
    ELSE IF x[i] # y[i] THEN x[i] < y[i]
    ELSE LtAt[x, y, i - 1]

Lt[x \in Big, y \in Big] ==
    IF Len(x) # Len(y) THEN Len(x) < Len(y) ELSE LtAt[x, y, Len(x)]

LT(x, y) == Lt[x, y]

LE(x, y) == ~Lt[y, x]

\* x - y - b for y + b <= x, limb by limb
SubB[x \in Big, y \in Big, b \in Nat] ==
    IF x = <<>> THEN <<>>
    ELSE IF y = <<>>
    THEN <<(x[1] - b) % Base>> \o SubB[Tail(x), y, IF x[1] - b < 0 THEN 1 ELSE 0]
    ELSE <<(x[1] - y[1] - b) % Base>>
             \o SubB[Tail(x), Tail(y), IF x[1] - y[1] - b < 0 THEN 1 ELSE 0]

Sub(x, y) == Trim[SubB[x, y, 0]]

\* x * k + c for one limb k
MulLimb[x \in Big, k \in Nat, c \in Nat] ==
    IF x = <<>> THEN (IF c = 0 THEN <<>> ELSE <<c>>)
    ELSE <<(x[1] * k + c) % Base>> \o MulLimb[Tail(x), k, (x[1] * k + c) \div Base]

\* z shifted up by one limb
Up[z \in Big] == IF z = <<>> THEN z ELSE <<0>> \o z

MulBig[x \in Big, y \in Big] ==
    IF x = <<>> \/ y = <<>> THEN <<>>
    ELSE AddC[MulLimb[x, y[1], 0], Up[MulBig[x, Tail(y)]], 0]

Mul(x, y) == MulBig[x, y]

\* <<quotient, remainder>> of x by one limb k > 0, from limb i down; acc holds
\* the limbs of the quotient found so far
DivLimb[x \in Big, k \in Nat, i \in Nat, r \in Nat, acc \in Big] ==
    IF i = 0 THEN <<acc, r>>
    ELSE DivLimb[x, k, i - 1, (r * Base + x[i]) % k,
                 <<(r * Base + x[i]) \div k>> \o acc]

\* from <<q, r>> with x = q * 2y + r, r < 2y: <<q', r'>> with x = q' * y + r', r' < y
Halve[h \in Nat \X Big, y \in Big] ==
    IF Lt[h[2], y] THEN <<2 * h[1], h[2]>>
    ELSE <<2 * h[1] + 1, Trim[SubB[h[2], y, 0]]>>

\* <<quotient, remainder>> of x by y > 0 for x < Base * y, by doubling y
DivModStep[x \in Big, y \in Big] ==
    IF Lt[x, y] THEN <<0, x>>
    ELSE Halve[DivModStep[x, AddC[y, y, 0]], y]

\* <<quotient, remainder>> of x by y > 0, from limb i down, one limb of the
\* quotient at a time; d is the division of the running remainder
DivLong[x \in Big, y \in Big, i \in Nat, d \in Nat \X Big, acc \in Big] ==
    IF i = 0 THEN <<<<d[1]>> \o acc, d[2]>>
    ELSE DivLong[x, y, i - 1, DivModStep[Trim[<<x[i]>> \o d[2]], y],
                 <<d[1]>> \o acc]

DivModBig[x \in Big, y \in Big] ==
    IF Len(y) = 1
    THEN DivLimb[x, y[1], Len(x), 0, <<>>]
    ELSE DivLong[x, y, Len(x), <<0, Zero>>, <<>>]

\* integer division, as / on unsigned integers
Div(x, y) == Trim[DivModBig[x, y][1]]

ModBig[x \in Big, y \in Big] ==
    IF Len(y) = 1 THEN FromInt[DivModBig[x, y][2]] ELSE DivModBig[x, y][2]

Mod(x, y) == ModBig[x, y]

Pow2[k \in Nat] == IF k < 15 THEN <<2^k>> ELSE <<0>> \o Pow2[k - 15]

Shl(x, k) == MulBig[x, Pow2[k]]

Shr(x, k) == Trim[DivModBig[x, Pow2[k]][1]]

-----------------------------------------------------------------------------
(* Machine arithmetic: a result v reduced to the width, and whether the    *)
(* exact result left the range (ovf): a build with overflow checks panics  *)
(* there, a build without them goes on with the wrapped value.             *)

W32 == <<0, 0, 4>>

Wrap32[s \in Big] == [v |-> ModBig[s, W32], ovf |-> ~Lt[s, W32]]

AddU32(x, y) == Wrap32[AddC[x, y, 0]]

MulU32(x, y) == Wrap32[MulBig[x, y]]

SubBig[x \in Big, y \in Big] ==
    IF ~Lt[x, y] THEN [v |-> Trim[SubB[x, y, 0]], ovf |-> FALSE]
    ELSE [v |-> Trim[SubB[AddC[x, W32, 0], y, 0]], ovf |-> TRUE]

SubU32(x, y) == SubBig[x, y]

\* the step counters: u32 in the source, StepBits bits in the model
StepMod == 2^StepBits

StepMax == StepMod - 1

AddStep(x, y) == [v |-> (x + y) % StepMod, ovf |-> x + y > StepMax]

\* speed: u32 in the source, SpeedBits bits in the model
AddSpeed(x, y) == [v |-> (x + y) % 2^SpeedBits, ovf |-> x + y >= 2^SpeedBits]

SubSpeed(x, y) == [v |-> (x - y) % 2^SpeedBits, ovf |-> x < y]

-----------------------------------------------------------------------------
(* fn u64sqrt(x0: u64) -> u64 *)

\* n turns of the while loop on s = <<x, xr, q2>>
u64sqrt_loop[s \in Big \X Big \X Big, n \in Nat] ==
    IF n = 0 \/ s[3] = Zero THEN s
    ELSE IF ~Lt[s[1], AddC[s[2], s[3], 0]]
         THEN u64sqrt_loop[<<Trim[SubB[s[1], AddC[s[2], s[3], 0], 0]],
                             AddC[Shr(s[2], 1), s[3], 0],
                             Shr(s[3], 2)>>, n - 1]
         ELSE u64sqrt_loop[<<s[1], Shr(s[2], 1), Shr(s[3], 2)>>, n - 1]

\* add for rounding, if necessary
u64sqrt_round[s \in Big \X Big \X Big] ==
    IF Lt[s[2], s[1]] THEN AddC[s[2], <<1>>, 0] ELSE s[2]

\* the sums "xr + q2" and "xr += q2" that n turns of the while loop on
\* s = <<x, xr, q2>> compute, as naturals
u64sqrt_sums[s \in Big \X Big \X Big, n \in Nat] ==
    IF n = 0 \/ s[3] = Zero THEN {}
    ELSE (IF ~Lt[s[1], AddC[s[2], s[3], 0]]
          THEN {AddC[s[2], s[3], 0], AddC[Shr(s[2], 1), s[3], 0]}
          ELSE {AddC[s[2], s[3], 0]})
             \cup u64sqrt_sums[u64sqrt_loop[s, 1], n - 1]

\* every sum a call u64sqrt(x0) computes: those of the 32 turns and "xr + 1"
u64sqrt_peaks(x0) ==
    LET s == u64sqrt_loop[u64sqrt_loop[u64sqrt_loop[u64sqrt_loop[
                 <<x0, Zero, Pow2[62]>>, 8], 8], 8], 8]
    IN  u64sqrt_sums[<<x0, Zero, Pow2[62]>>, 32]
            \cup (IF Lt[s[2], s[1]] THEN {AddC[s[2], <<1>>, 0]} ELSE {})

\* a square root without the rounding step
u64sqrt_floor(x0) ==
    u64sqrt_loop[u64sqrt_loop[u64sqrt_loop[u64sqrt_loop[
        <<x0, Zero, Pow2[62]>>, 8], 8], 8], 8][2]

\* the scan bit q2 starts at 2^62 and is shifted twice per turn: 32 turns
u64sqrt(x0) ==
    u64sqrt_round[
        u64sqrt_loop[u64sqrt_loop[u64sqrt_loop[u64sqrt_loop[
            <<x0, Zero, Pow2[62]>>, 8], 8], 8], 8]]

-----
(* pub struct Stepgen, the build and the caller *)

VARIABLES
    current_step,       \* current step
    speed,              \* amount of acceleration steps taken so far
    delay,              \* previously calculated delay, 16.16
    slewing_delay,      \* the slewing delay when slewing, else 0; 16.16
    ticks_per_second,   \* timer frequency
    first_delay,        \* first step delay, 16.16
    target_step,        \* target step
    target_delay,       \* target speed delay, 16.16
    overflow_checks,    \* the build: TRUE panics on integer overflow, FALSE wraps
    panicked,           \* a call has panicked
    overflowed,         \* kinds of overflow the producer's arithmetic has had
    last,               \* the last call: [op, arg, res, ret]; ret is the delay of Some
    produced,           \* number of delays the producer has returned
    accel_ok,           \* set_acceleration has returned Ok on this machine
    speed_ok,           \* set_target_speed has returned Ok on this machine
    early_step,         \* argument of a set_target_step call made before any other setter, else -1
    mark,               \* the machine at the last setter call: [op, step, speed, produced,
                        \* stops, decel, stopped]; stops and decel are about the calls since
    steady              \* first_delay and target_delay are as they were when the
                        \* machine was last at rest

fields == <<current_step, speed, delay, slewing_delay, ticks_per_second,
            first_delay, target_step, target_delay>>

vars == <<current_step, speed, delay, slewing_delay, ticks_per_second,
          first_delay, target_step, target_delay, overflow_checks, panicked,
          overflowed, last, produced, accel_ok, speed_ok, early_step, mark,
          steady>>

\* smallest delay handled without significant rounding errors
FASTEST_DELAY == 30

Self ==
    [current_step |-> current_step, speed |-> speed, delay |-> delay,
     slewing_delay |-> slewing_delay, ticks_per_second |-> ticks_per_second,
     first_delay |-> first_delay, target_step |-> target_step,
     target_delay |-> target_delay]

\* pub const fn new(ticks_per_second: u32) -> Stepgen
new(f) ==
    [current_step |-> 0, speed |-> 0, delay |-> Zero, slewing_delay |-> Zero,
     ticks_per_second |-> f, first_delay |-> Zero, target_step |-> 0,
     target_delay |-> Zero]

\* the timer frequencies the machine is constructed with
Freqs == {8, 1000000}

\* the accelerations (24.8), target speeds (24.8) and target steps the caller
\* passes while the machine runs
Accels == {256, 204800, 256000}

Speeds == {0, 5120, 12800, 204800, 256000000}

Steps == {0, 2, 5, StepMax}

\* the arguments of a caller that only configures
AllAccels == {0, 1, 256, 204800, 256000, 16777216, 2147483647}

AllSpeeds == {0, 1, 64, 68, 69, 256, 3906, 3907, 5120, 10240, 12800, 204800,
              8532222, 8533333, 256000000, 2147483647}

AllSteps == 0 .. StepMax

\* set_acceleration: the first delay c0 in 16.8, before the range check
c0_of(ticks_per_second_, acceleration) ==
    Shr(Div(Mul(U(ticks_per_second_),
                u64sqrt(Div(Shl(U(2 * 676 * 676), 40), U(acceleration)))),
            U(1000)), 8)

\* c0_of on the arguments the callers of the model pass, evaluated once
c0_table ==
    [f \in Freqs |-> [a \in (Accels \cup AllAccels) \ {0} |-> c0_of(f, a)]]

\* a set_acceleration that also restarts the ramp at the new first delay
set_acceleration_restarts(self, acceleration) ==
    IF acceleration = 0 THEN [self |-> self, res |-> "panic"]
    ELSE
    LET c0 == c0_table[self.ticks_per_second][acceleration]
        fd == Mod(Shl(Mod(c0, W32), 8), W32)
    IN  IF Shr(c0, 24) # Zero
        THEN [self |-> self, res |-> "TooSlow"]
        ELSE [self |-> [self EXCEPT !.first_delay = fd, !.delay = fd], res |-> "Ok"]

\* set_acceleration on c0: the range check "(c0 >> 24) != 0" and the first
\* delay "(c0 as u32) << 8", evaluated once
first_delay_table ==
    [f \in Freqs |-> [a \in (Accels \cup AllAccels) \ {0} |->
        LET c0 == c0_table[f][a]
        IN  [res |-> IF Shr(c0, 24) # Zero THEN "TooSlow" ELSE "Ok",
             first_delay |-> Mod(Shl(Mod(c0, W32), 8), W32)]]]

\* pub fn set_acceleration(&mut self, acceleration: u32) -> Result
set_acceleration(self, acceleration) ==
    IF acceleration = 0 THEN [self |-> self, res |-> "panic"]
    ELSE
    LET c0 == first_delay_table[self.ticks_per_second][acceleration]
    IN  IF c0.res # "Ok"
        THEN [self |-> self, res |-> c0.res]
        ELSE [self |-> [self EXCEPT !.first_delay = c0.first_delay], res |-> "Ok"]

\* pub fn set_target_step(&mut self, target_step: u32) -> Result
set_target_step(self, step) ==
    IF self.target_delay = Zero \/ self.first_delay = Zero
    THEN [self |-> self, res |-> "SpeedAccelerationNotSet"]
    ELSE [self |-> [self EXCEPT !.target_step = step], res |-> "Ok"]

\* set_target_speed: the target delay in 16.8, before the range checks
delay_of(ticks_per_second_, target_speed) ==
    Div(Shl(U(ticks_per_second_), 16), U(target_speed))

\* a set_target_speed that stores the delay before it checks the floor
set_target_speed_stores_first(self, target_speed) ==
    IF target_speed = 0 THEN [self |-> self, res |-> "TooSlow"]
    ELSE
    LET d == Div(Shl(U(self.ticks_per_second), 16), U(target_speed))
        s1 == [self EXCEPT !.target_delay = Mod(Shl(Mod(d, W32), 8), W32)]
    IN  IF Shr(d, 24) # Zero THEN [self |-> self, res |-> "TooSlow"]
        ELSE IF LE(d, Mul(U(FASTEST_DELAY), Shl(U(1), 8)))
        THEN [self |-> s1, res |-> "TooFast"]
        ELSE [self |-> s1, res |-> "Ok"]

\* a set_target_speed that accepts a delay equal to the floor
set_target_speed_strict_floor(self, target_speed) ==
    IF target_speed = 0 THEN [self |-> self, res |-> "TooSlow"]
    ELSE
    LET d == Div(Shl(U(self.ticks_per_second), 16), U(target_speed))
    IN  IF Shr(d, 24) # Zero THEN [self |-> self, res |-> "TooSlow"]
        ELSE IF LT(d, Mul(U(FASTEST_DELAY), Shl(U(1), 8)))
        THEN [self |-> self, res |-> "TooFast"]
        ELSE [self |-> [self EXCEPT !.target_delay = Mod(Shl(Mod(d, W32), 8), W32)],
              res |-> "Ok"]

\* set_target_speed on delay: the range checks "(delay >> 24) != 0" and
\* "delay <= FASTEST_DELAY * (1 << 8)", and the target delay
\* "(delay as u32) << 8", evaluated once
target_delay_table ==
    [f \in Freqs |-> [v \in (Speeds \cup AllSpeeds) \ {0} |->
        LET d == delay_of(f, v)
        IN  [res |-> IF Shr(d, 24) # Zero THEN "TooSlow"
                     ELSE IF LE(d, Mul(U(FASTEST_DELAY), Shl(U(1), 8))) THEN "TooFast"
                     ELSE "Ok",
             target_delay |-> Mod(Shl(Mod(d, W32), 8), W32)]]]

\* pub fn set_target_speed(&mut self, target_speed: u32) -> Result
set_target_speed(self, target_speed) ==
    IF target_speed = 0 THEN [self |-> self, res |-> "TooSlow"]
    ELSE
    LET d == target_delay_table[self.ticks_per_second][target_speed]
    IN  IF d.res # "Ok"
        THEN [self |-> self, res |-> d.res]
        ELSE [self |-> [self EXCEPT !.target_delay = d.target_delay], res |-> "Ok"]

\* The producer's results carry ovf, the kinds of arithmetic that left the
\* unsigned range in the call: "delay" (the delay arithmetic of speedup and
\* slowdown), "denom" (4 * speed - 1) and "step" (current_step, speed,
\* est_stop).  With overflow checks the call panics at the first of them, the
\* only one it then reports, and self is the machine as the panic leaves it.

\* fn speedup(&mut self)
speedup(self, checks) ==
    LET m     == MulU32(U(4), U(self.speed))
        denom == AddU32(m.v, U(1))
        twice == MulU32(U(2), self.delay)
        num   == AddU32(twice.v, Div(denom.v, U(2)))
        d     == SubU32(self.delay, Div(num.v, denom.v))
        sp    == AddSpeed(self.speed, 1)
        ovf   == (IF m.ovf \/ denom.ovf THEN {"denom"} ELSE {})
                     \cup (IF twice.ovf \/ num.ovf \/ d.ovf THEN {"delay"} ELSE {})
    IN  IF checks /\ ovf # {}
        THEN [self |-> self, ovf |-> IF "denom" \in ovf THEN {"denom"} ELSE ovf]
        ELSE IF checks /\ sp.ovf
        THEN [self |-> [self EXCEPT !.delay = d.v], ovf |-> {"step"}]
        ELSE [self |-> [self EXCEPT !.delay = d.v, !.speed = sp.v],
              ovf |-> ovf \cup (IF sp.ovf THEN {"step"} ELSE {})]

\* a slowdown that takes the increment off the delay
slowdown_shortens(self, checks) ==
    LET sp    == SubSpeed(self.speed, 1)
        denom == SubU32(MulU32(U(4), U(sp.v)).v, U(1))
        num   == AddU32(MulU32(U(2), self.delay).v, Div(denom.v, U(2)))
        d     == SubU32(self.delay, Div(num.v, denom.v))
    IN  [self |-> [self EXCEPT !.speed = sp.v, !.delay = d.v], ovf |-> {}]

\* fn slowdown(&mut self)
slowdown(self, checks) ==
    LET sp    == SubSpeed(self.speed, 1)
        s1    == [self EXCEPT !.speed = sp.v]
        m     == MulU32(U(4), U(sp.v))
        denom == SubU32(m.v, U(1))
        twice == MulU32(U(2), self.delay)
        num   == AddU32(twice.v, Div(denom.v, U(2)))
        d     == AddU32(self.delay, Div(num.v, denom.v))
        ovf   == (IF m.ovf \/ denom.ovf THEN {"denom"} ELSE {})
                     \cup (IF twice.ovf \/ num.ovf \/ d.ovf THEN {"delay"} ELSE {})
    IN  IF checks /\ sp.ovf
        THEN [self |-> self, ovf |-> {"step"}]
        ELSE IF checks /\ ovf # {}
        THEN [self |-> s1, ovf |-> IF "denom" \in ovf THEN {"denom"} ELSE ovf]
        ELSE [self |-> [s1 EXCEPT !.delay = d.v],
              ovf |-> ovf \cup (IF sp.ovf THEN {"step"} ELSE {})]

\* a returned delay that is the ramp delay even when slewing
emit_ramp_delay(self) == ToInt[Shr(self.delay, 8)]

\* the last statement of next_delay: the slew delay if slewing, else delay, in 16.8
emit(self) ==
    ToInt[Shr(IF self.slewing_delay # Zero THEN self.slewing_delay ELSE self.delay, 8)]

\* the result of a producer call that went through r, a speedup or slowdown
\* followed by the slewing switch that gave s1
stepped(r, s1, ovf, checks) ==
    IF checks /\ r.ovf # {}
    THEN [self |-> r.self, ret |-> 0, ovf |-> r.ovf]
    ELSE [self |-> s1, ret |-> emit(s1), ovf |-> ovf \cup r.ovf]

\* next_delay from "let est_stop" on; st is current_step before its increment
ramp(self, st, checks) ==
    LET est_stop      == AddStep(st, self.speed)
        target_delay_ == self.target_delay
        ovf           == IF est_stop.ovf THEN {"step"} ELSE {}
    IN  IF checks /\ est_stop.ovf THEN [self |-> self, ret |-> 0, ovf |-> ovf]
        ELSE IF est_stop.v = self.target_step
        THEN [self |-> self, ret |-> emit(self), ovf |-> ovf]
        ELSE IF est_stop.v > self.target_step
        THEN LET r == slowdown(self, checks)
             IN  stepped(r, [r.self EXCEPT !.slewing_delay = Zero], ovf, checks)
        ELSE IF self.slewing_delay = Zero /\ LT(self.delay, target_delay_)
        THEN LET r == slowdown(self, checks)
             IN  stepped(r, IF LE(target_delay_, r.self.delay)
                            THEN [r.self EXCEPT !.slewing_delay = target_delay_]
                            ELSE r.self, ovf, checks)
        ELSE IF self.slewing_delay = Zero /\ LT(target_delay_, self.delay)
        THEN LET r == speedup(self, checks)
             IN  stepped(r, IF LE(r.self.delay, target_delay_)
                            THEN [r.self EXCEPT !.slewing_delay = target_delay_]
                            ELSE r.self, ovf, checks)
        ELSE [self |-> self, ret |-> emit(self), ovf |-> ovf]

\* a stop point that forgets to clear speed
stopped_keeps_speed(self) == [self |-> self, ret |-> 0, ovf |-> {}]

\* next_delay at the stop point: "self.speed = 0; return 0"
stopped(self) == [self |-> [self EXCEPT !.speed = 0], ret |-> 0, ovf |-> {}]

\* a start from rest that enters the ramp whatever the target delay
start_always_ramps(self) ==
    LET s1 == [self EXCEPT !.delay = self.first_delay, !.speed = 1]
    IN  [self |-> s1, ret |-> ToInt[Shr(s1.delay, 8)], ovf |-> {}]

\* next_delay at rest ("if self.speed == 0"): the target delay without a ramp,
\* or the first step of the ramp
start(self) ==
    IF LT(self.first_delay, self.target_delay)
    THEN [self |-> self, ret |-> ToInt[Shr(self.target_delay, 8)], ovf |-> {}]
    ELSE LET s1 == [self EXCEPT !.delay = self.first_delay, !.speed = 1]
         IN  [self |-> s1, ret |-> ToInt[Shr(s1.delay, 8)], ovf |-> {}]

\* a next_delay that keeps slewing when the target delay has changed
next_delay_keeps_slewing(self, checks) ==
    LET st == self.current_step
    IN  IF st >= self.target_step /\ self.speed <= 1
        THEN stopped(self)
        ELSE
        LET inc == AddStep(self.current_step, 1)
            s2  == [self EXCEPT !.current_step = inc.v]
        IN  IF checks /\ inc.ovf
            THEN [self |-> self, ret |-> 0, ovf |-> {"step"}]
            ELSE
            LET r == IF s2.speed = 0 THEN start(s2) ELSE ramp(s2, st, checks)
            IN  [r EXCEPT !.ovf = @ \cup (IF inc.ovf THEN {"step"} ELSE {})]

\* fn next_delay(&mut self) -> u32: 0 if should stop, else the delay in 16.8
next_delay(self, checks) ==
    LET st == self.current_step
    IN  IF st >= self.target_step /\ self.speed <= 1
        THEN stopped(self)
        ELSE
        LET s1  == IF self.slewing_delay # Zero /\ self.slewing_delay # self.target_delay
                   THEN [self EXCEPT !.slewing_delay = Zero]
                   ELSE self
            inc == AddStep(s1.current_step, 1)
            s2  == [s1 EXCEPT !.current_step = inc.v]
        IN  IF checks /\ inc.ovf
            THEN [self |-> s1, ret |-> 0, ovf |-> {"step"}]
            ELSE
            LET r == IF s2.speed = 0 THEN start(s2) ELSE ramp(s2, st, checks)
            IN  [r EXCEPT !.ovf = @ \cup (IF inc.ovf THEN {"step"} ELSE {})]

\* pub fn current_speed(&self) -> u32, 24.8
current_speed(self) ==
    LET d == Shr(IF self.slewing_delay # Zero THEN self.slewing_delay ELSE self.delay, 8)
    IN  IF d # Zero
        THEN Mod(Div(Shl(U(self.ticks_per_second), 16), d), W32)
        ELSE Zero

-----------------------------------------------------------------------------
(* The caller: constructs one machine, then calls the setters and the      *)
(* producer in any order.                                                   *)

Store(self) ==
    /\ current_step' = self.current_step
    /\ speed' = self.speed
    /\ delay' = self.delay
    /\ slewing_delay' = self.slewing_delay
    /\ ticks_per_second' = self.ticks_per_second
    /\ first_delay' = self.first_delay
    /\ target_step' = self.target_step
    /\ target_delay' = self.target_delay

Init ==
    /\ \E f \in Freqs :
         LET self == new(f)
         IN  /\ current_step = self.current_step
             /\ speed = self.speed
             /\ delay = self.delay
             /\ slewing_delay = self.slewing_delay
             /\ ticks_per_second = self.ticks_per_second
             /\ first_delay = self.first_delay
             /\ target_step = self.target_step
             /\ target_delay = self.target_delay
    /\ overflow_checks \in BOOLEAN
    /\ panicked = FALSE
    /\ overflowed = {}
    /\ last = [op |-> "new", arg |-> 0, res |-> "Ok", ret |-> 0]
    /\ produced = 0
    /\ accel_ok = FALSE
    /\ speed_ok = FALSE
    /\ early_step = -1
    /\ mark = [op |-> "new", step |-> 0, speed |-> 0, produced |-> 0, stops |-> 0,
               decel |-> FALSE, stopped |-> FALSE]
    /\ steady = TRUE

\* a setter call is noted in mark; stops counts the stop signals since, and
\* decel tells that a producer call since has lowered speed and returned a delay;
\* stopped tells that the setter call came right after a stop signal
Mark(op) ==
    [op |-> op, step |-> current_step, speed |-> speed, produced |-> produced,
     stops |-> 0, decel |-> FALSE,
     stopped |-> (last.op = "next" /\ last.res = "None")]

\* steady after a setter call that left the machine as r: at rest, or with
\* first_delay and target_delay as before
Steady(r) ==
    speed = 0 \/ (steady /\ r.first_delay = first_delay /\ r.target_delay = target_delay)

SetAcceleration(inputs) ==
    /\ ~panicked
    /\ \E a \in inputs : \E r \in {set_acceleration(Self, a)} :
         /\ Store(r.self)
         /\ panicked' = (r.res = "panic")
         /\ last' = [op |-> "set_acceleration", arg |-> a, res |-> r.res, ret |-> 0]
         /\ accel_ok' = (accel_ok \/ r.res = "Ok")
         /\ steady' = Steady(r.self)
    /\ mark' = Mark("set_acceleration")
    /\ UNCHANGED <<overflow_checks, overflowed, produced, speed_ok, early_step>>

SetTargetSpeed(inputs) ==
    /\ ~panicked
    /\ \E v \in inputs : \E r \in {set_target_speed(Self, v)} :
         /\ Store(r.self)
         /\ last' = [op |-> "set_target_speed", arg |-> v, res |-> r.res, ret |-> 0]
         /\ speed_ok' = (speed_ok \/ r.res = "Ok")
         /\ steady' = Steady(r.self)
    /\ mark' = Mark("set_target_speed")
    /\ UNCHANGED <<overflow_checks, panicked, overflowed, produced, accel_ok, early_step>>

SetTargetStep(inputs) ==
    /\ ~panicked
    /\ \E t \in inputs : \E r \in {set_target_step(Self, t)} :
         /\ Store(r.self)
         /\ last' = [op |-> "set_target_step", arg |-> t, res |-> r.res, ret |-> 0]
         /\ early_step' = IF last.op = "new" THEN t ELSE -1
    /\ mark' = Mark("set_target_step")
    /\ UNCHANGED <<overflow_checks, panicked, overflowed, produced, accel_ok, speed_ok,
                   steady>>

\* impl Iterator for Stepgen: fn next(&mut self) -> Option<u32>; res 0 is None
Produce ==
    /\ ~panicked
    /\ produced < MaxProduced
    /\ \E r \in {next_delay(Self, overflow_checks)} :
         LET panic == overflow_checks /\ r.ovf # {}
         IN  /\ Store(r.self)
             /\ panicked' = panic
             /\ overflowed' = overflowed \cup r.ovf
             /\ last' = [op |-> "next", arg |-> 0,
                         res |-> IF panic THEN "panic"
                                 ELSE IF r.ret = 0 THEN "None" ELSE "Some",
                         ret |-> IF panic THEN 0 ELSE r.ret]
             /\ produced' = IF ~panic /\ r.ret # 0 THEN produced + 1 ELSE produced
             /\ mark' = IF panic THEN mark
                        ELSE IF r.ret = 0
                        THEN [mark EXCEPT !.stops = IF @ < 2 THEN @ + 1 ELSE @]
                        ELSE [mark EXCEPT !.decel = @ \/ r.self.speed < speed]
             /\ steady' = (speed = 0 \/ steady)
    /\ UNCHANGED <<overflow_checks, accel_ok, speed_ok, early_step>>

\* any interleaving of the setters and the producer
Next ==
    \/ SetAcceleration(Accels)
    \/ SetTargetSpeed(Speeds)
    \/ SetTargetStep(Steps)
    \/ Produce

Spec == Init /\ [][Next]_vars

\* a caller that only configures the machine
NextConfig ==
    \/ SetAcceleration(AllAccels)
    \/ SetTargetSpeed(AllSpeeds)
    \/ SetTargetStep(AllSteps)

SpecConfig == Init /\ [][NextConfig]_vars

\* the arguments of a caller of u64sqrt: the small numbers, the powers of two
\* and their neighbours up to 2^64 - 1, the numbers around n * n and around
\* the tie n * n + n for some roots n, and the values set_acceleration passes
SqrtRoots ==
    {U(181), U(1000), U(46340), U(65535), Pow2[31], Sub(Pow2[32], U(2)),
     Sub(Pow2[32], U(1))}

SqrtArgs ==
    {U(n) : n \in 0 .. 40}
        \cup {Pow2[k] : k \in 0 .. 63}
        \cup {Sub(Pow2[k], U(1)) : k \in 1 .. 64}
        \cup {Add(Pow2[k], U(1)) : k \in 1 .. 63}
        \cup UNION {{Sub(Mul(n, n), U(1)), Mul(n, n), Add(Mul(n, n), U(1)),
                     Sub(Mul(n, Add(n, U(1))), U(1)), Mul(n, Add(n, U(1))),
                     Add(Mul(n, Add(n, U(1))), U(1))} : n \in SqrtRoots}
        \cup {Div(Shl(U(2 * 676 * 676), 40), U(a)) : a \in AllAccels \ {0}}

\* u64sqrt on these arguments, evaluated once
u64sqrt_table == [x \in SqrtArgs |-> u64sqrt(x)]

\* a call u64sqrt(x) on its own
Sqrt ==
    /\ \E x \in SqrtArgs :
         last' = [op |-> "u64sqrt", arg |-> x, res |-> "Ok", ret |-> u64sqrt_table[x]]
    /\ UNCHANGED <<fields, overflow_checks, panicked, overflowed, produced, accel_ok,
                   speed_ok, early_step, mark, steady>>

NextSqrt == Sqrt

SpecSqrt == Init /\ [][NextSqrt]_vars

----------------------------------------------------------------------------
(* The claims.                                                             *)

Max(a, b) == IF a >= b THEN a ELSE b

\* delays returned since the last setter call
DelaysSince == produced - mark.produced

\* the last setter call found a configured machine at rest and left a target
\* step beyond the current step
RunFromRest ==
    /\ mark.op # "new"
    /\ mark.speed = 0
    /\ accel_ok /\ speed_ok
    /\ target_step > mark.step

\* C1: in a run from rest with target_step = T > current_step = c and no
\* setter call during the run, the producer returns exactly T - c delays and
\* then the stop signal, and current_step = T at the first stop signal: no
\* call panics, no more than T - c delays come before the stop signal, and
\* once it has come current_step = T and T - c delays were returned.
C1_Stops ==
    RunFromRest =>
        /\ ~panicked
        /\ mark.stops = 0 => DelaysSince <= target_step - mark.step
        /\ mark.stops >= 1 => /\ current_step = target_step
                              /\ DelaysSince = target_step - mark.step

\* the last setter call was set_target_step on a running machine
Retargeted == mark.op = "set_target_step" /\ mark.speed >= 1

\* C2: after set_target_step(T) on a machine running at current_step = c with
\* speed = s >= 1, and no setter call since, the first stop signal comes with
\* current_step = max(T, c + s - 1), and never with current_step < target_step.
C2_StopPoint ==
    Retargeted =>
        /\ ~panicked
        /\ mark.stops >= 1 =>
               current_step = Max(target_step, mark.step + mark.speed - 1)
        /\ last.op = "next" /\ last.res = "None" => current_step >= target_step

\* C3: for accepted accelerations and target speeds the delay arithmetic of
\* speedup and slowdown never leaves the unsigned 32-bit range.
C3_DelayInRange == "delay" \notin overflowed

\* C4: a producer call that returns a delay adds exactly 1 to current_step,
\* every other call leaves current_step unchanged, and current_step is the
\* number of delays produced so far.
C4_CountsDelays ==
    [][~panicked' =>
          /\ current_step' = IF last'.op = "next" /\ last'.res = "Some"
                             THEN current_step + 1
                             ELSE current_step
          /\ current_step' = produced']_vars

\* C5: a producer call that follows a producer call that returned the stop
\* signal returns the stop signal again and leaves current_step and speed
\* unchanged, speed being 0.
C5_StaysStopped ==
    [][last.op = "next" /\ last.res = "None" /\ last'.op = "next" =>
          /\ last'.res = "None"
          /\ current_step' = current_step
          /\ speed = 0 /\ speed' = 0]_vars

\* C5 witness: the stop signal was returned twice at the end of a run
C5_Witness ==
    /\ last.op = "next" /\ last.res = "None"
    /\ mark.stops = 2
    /\ current_step > 0 /\ current_step = target_step

Setters == {"set_acceleration", "set_target_speed", "set_target_step"}

Errors == {"TooSlow", "TooFast", "SpeedAccelerationNotSet"}

\* C6: set_target_step returns SpeedAccelerationNotSet exactly when
\* set_acceleration or set_target_speed has not yet returned Ok, and once both
\* have returned Ok first_delay and target_delay are nonzero and
\* set_target_step stores the step.
C6_NotSetIffUnconfigured ==
    /\ accel_ok /\ speed_ok => first_delay # Zero /\ target_delay # Zero
    /\ last.op = "set_target_step" =>
           /\ last.res = "SpeedAccelerationNotSet" <=> ~(accel_ok /\ speed_ok)
           /\ accel_ok /\ speed_ok => last.res = "Ok" /\ target_step = last.arg

\* C7: a target step given to set_target_step right after construction is
\* the target step of the machine once set_acceleration and set_target_speed
\* have returned Ok.
C7_EarlyStepRetained ==
    early_step # -1 /\ accel_ok /\ speed_ok => target_step = early_step

\* C8: a setter call that returns an error leaves every field of the machine
\* as it was before the call.
C8_ErrorKeepsFields ==
    [][last'.op \in Setters /\ last'.res \in Errors => UNCHANGED fields]_vars

\* C8 witness: a running, configured machine has just refused a target speed
C8_Witness ==
    /\ last.op = "set_target_speed" /\ last.res = "TooFast"
    /\ speed >= 1 /\ slewing_delay # Zero
    /\ target_delay # Zero

\* the 16.8 delay of the target speed v > 0: floor((ticks_per_second << 16) / v)
speed_delay(v) == Div(Shl(U(ticks_per_second), 16), U(v))

SlowFromRest ==
    /\ mark.op # "new"
    /\ mark.speed = 0
    /\ LT(first_delay, target_delay)
    /\ target_step >= mark.step

\* C10: at rest with target_delay > first_delay, a producer call with
\* current_step < target_step returns target_delay >> 8, adds 1 to
\* current_step and leaves speed at 0; a run with target_step =
\* current_step + N returns N delays and then the stop signal.
C10_NoRamp ==
    /\ [][speed = 0 /\ LT(first_delay, target_delay) /\ current_step < target_step
              /\ last'.op = "next" =>
                 /\ last'.res = "Some"
                 /\ last'.ret = ToInt[Shr(target_delay, 8)]
                 /\ current_step' = current_step + 1
                 /\ speed' = 0]_vars
    /\ [](SlowFromRest =>
             /\ ~panicked
             /\ speed = 0
             /\ mark.stops = 0 => DelaysSince <= target_step - mark.step
             /\ mark.stops >= 1 => /\ DelaysSince = target_step - mark.step
                                   /\ current_step = target_step)

\* C10 witness: a run of at least two delays without a ramp has ended with
\* the stop signal
C10_Witness ==
    /\ SlowFromRest
    /\ mark.op = "set_target_step"
    /\ last.op = "next" /\ last.res = "None"
    /\ DelaysSince >= 2
    /\ current_step = target_step

\* C11: in a run in which the acceleration and the target speed are not
\* changed, no delay the producer returns is smaller than target_delay >> 8.
C11_NeverFaster ==
    last.op = "next" /\ last.res = "Some" /\ steady =>
        last.ret >= ToInt[Shr(target_delay, 8)]

\* C11 witness: a delay of the deceleration ramp of such a run from rest,
\* after at least three other delays
C11_Witness ==
    /\ steady
    /\ last.op = "next" /\ last.res = "Some"
    /\ mark.decel /\ mark.speed = 0
    /\ DelaysSince >= 4
    /\ LT(target_delay, delay)
    /\ overflowed = {}

C14_DownThenUp ==
    [][RunFromRest /\ LE(target_delay, first_delay)
           /\ last.op = "next" /\ last.res = "Some"
           /\ last'.op = "next" /\ last'.res = "Some" =>
              IF mark'.decel THEN last'.ret >= last.ret ELSE last'.ret <= last.ret]_vars

\* C14 witness: such a run of at least four delays has accelerated,
\* decelerated and ended with the stop signal
C14_Witness ==
    /\ RunFromRest /\ LE(target_delay, first_delay)
    /\ mark.decel /\ mark.stops >= 1
    /\ DelaysSince >= 4
    /\ overflowed = {}

\* what C15 says of one step: a successful setter changes its own field only,
\* and no setter call touches the running state
C15_Frame ==
    /\ last'.op = "set_acceleration" /\ last'.res = "Ok" =>
           Self' = [Self EXCEPT !.first_delay = first_delay']
    /\ last'.op = "set_target_speed" /\ last'.res = "Ok" =>
           Self' = [Self EXCEPT !.target_delay = target_delay']
    /\ last'.op = "set_target_step" /\ last'.res = "Ok" =>
           Self' = [Self EXCEPT !.target_step = target_step']
    /\ last'.op \in Setters =>
           UNCHANGED <<current_step, speed, delay, slewing_delay>>

\* what C15 says of one state: set_acceleration and set_target_speed commute
\* and each setter, repeated with the same argument, changes nothing
C15_Commute ==
    /\ \A a \in Accels, v \in Speeds :
           LET x == set_acceleration(Self, a)
               y == set_target_speed(Self, v)
           IN  /\ set_target_speed(x.self, v).self = set_acceleration(y.self, a).self
               /\ set_acceleration(x.self, a) = x
               /\ set_target_speed(y.self, v) = y
    /\ \A t \in Steps :
           LET z == set_target_step(Self, t)
           IN  set_target_step(z.self, t) = z

\* C15: a successful set_acceleration changes only first_delay, a successful
\* set_target_speed only target_delay, a successful set_target_step only
\* target_step, and no setter touches current_step, speed, delay or
\* slewing_delay; set_acceleration and set_target_speed commute, and a setter
\* repeated with the same argument leaves the state unchanged.
C15_SettersFrame == [][C15_Frame]_vars /\ []C15_Commute

\* C15 witness: set_acceleration has stored another first delay on a machine
\* that is cruising, away from its first delay
C15_Witness ==
    /\ last.op = "set_acceleration" /\ last.res = "Ok"
    /\ ~steady
    /\ speed >= 2 /\ slewing_delay # Zero
    /\ delay # first_delay

\* C16: u64sqrt(x) is the integer nearest to the square root of x: 0 for
\* x = 0, else the r with r * r - r < x <= r * r + r; it is the floor root f,
\* plus one exactly when x - f * f > f; and no sum of the call reaches 2^64.
C16_NearestRoot ==
    last.op = "u64sqrt" =>
        LET x == last.arg
            r == last.ret
            One == U(1)
        IN  /\ x = Zero => r = Zero
            /\ x # Zero =>
                   /\ r # Zero
                   /\ LT(Mul(r, Sub(r, One)), x)
                   /\ LE(x, Mul(r, Add(r, One)))
            /\ \E f \in {r} \cup (IF r = Zero THEN {} ELSE {Sub(r, One)}) :
                   /\ LE(Mul(f, f), x)
                   /\ LT(x, Mul(Add(f, One), Add(f, One)))
                   /\ r = IF LT(f, Sub(x, Mul(f, f))) THEN Add(f, One) ELSE f
            /\ \A v \in u64sqrt_peaks(x) : LT(v, Pow2[64])

\* C16 witness: the largest argument, whose floor root 2^32 - 1 is rounded up
C16_Witness ==
    /\ last.op = "u64sqrt"
    /\ last.arg = Sub(Pow2[64], U(1))
    /\ last.ret = Pow2[32]

\* C17: a producer call that applies a deceleration step finds speed >= 2, so
\* speed stays >= 1 and the divisor 4 * speed - 1 does not underflow.
C17_SlowdownFromTwo ==
    [][last'.op = "next" /\ last'.res # "None" /\ speed' < speed =>
           speed >= 2 /\ speed' >= 1 /\ "denom" \notin overflowed']_vars

\* the increment of a recurrence step with divisor k, rounded half up:
\* floor((2 * delay + floor(k / 2)) / k)
step_of(k) == Div(Add(Mul(U(2), delay), U(k \div 2)), U(k))

\* C18: a producer call applies at most one recurrence step; an acceleration
\* step from speed n gives delay' = delay - floor((2 * delay + floor((4n + 1)
\* / 2)) / (4n + 1)) and speed' = n + 1, a deceleration step from speed n gives
\* speed' = n - 1 and delay' = delay + floor((2 * delay + floor((4(n - 1) - 1)
\* / 2)) / (4(n - 1) - 1)); the first call from rest returns first_delay >> 8
\* with speed' = 1, and a returned delay is the 16.16 value shifted right by 8.
C18_Recurrence ==
    [][last'.op = "next" /\ last'.res # "None" =>
           /\ speed' \in {speed - 1, speed, speed + 1}
           /\ speed >= 1 /\ speed' = speed + 1 =>
                  /\ LE(step_of(4 * speed + 1), delay)
                  /\ delay' = Sub(delay, step_of(4 * speed + 1))
           /\ speed' = speed - 1 =>
                  /\ speed >= 2
                  /\ delay' = Add(delay, step_of(4 * (speed - 1) - 1))
           /\ speed' = speed => delay' = delay
           /\ speed = 0 /\ speed' = 1 =>
                  /\ delay' = first_delay
                  /\ last'.res = "Some" /\ last'.ret = ToInt[Shr(first_delay, 8)]
           /\ last'.res = "Some" =>
                  last'.ret \in {ToInt[Shr(delay', 8)], ToInt[Shr(target_delay, 8)]}]_vars

\* C19: slewing_delay # 0 implies speed # 0: a machine at rest is never
\* marked as cruising.
C19_CruiseNotAtRest == slewing_delay # Zero => speed # 0

\* C20: after a producer call that returns a delay, slewing_delay is 0 or the
\* current target_delay, whatever setter calls came between the producer
\* calls; a delay taken from slewing_delay is the current target delay, a
\* cruise at another target delay has ended, and slewing_delay is 0 after a
\* call that decelerated toward the target step.
C20_SlewingIsTarget ==
    [][last'.op = "next" /\ last'.res = "Some" =>
           /\ slewing_delay' \in {Zero, target_delay'}
           /\ speed >= 1 /\ slewing_delay' # Zero =>
                  last'.ret = ToInt[Shr(target_delay', 8)]
           /\ slewing_delay \notin {Zero, target_delay} =>
                  slewing_delay' # slewing_delay
           /\ speed >= 1 /\ AddStep(current_step, speed).v > target_step =>
                  slewing_delay' = Zero]_vars

\* C20 witness: after set_target_speed changed the target delay of a running
\* machine, the producer has returned a delay and the machine cruises at the
\* new target delay
C20_Witness ==
    /\ last.op = "next" /\ last.res = "Some"
    /\ mark.op = "set_target_speed" /\ mark.speed >= 2
    /\ ~steady
    /\ DelaysSince >= 1
    /\ slewing_delay # Zero /\ slewing_delay = target_delay

\* C22: for every target step up to the largest step, current_step + 1 and
\* est_stop = current_step + speed never leave the unsigned range in a producer
\* call, so a run toward the largest step decelerates and stops at it.
C22_StepInRange ==
    /\ "step" \notin overflowed
    /\ RunFromRest /\ mark.stops >= 1 => current_step = target_step

\* the machine C21 compares with: freshly constructed, with the
\* ticks_per_second, first_delay and target_delay of this one and the target
\* step n
fresh(n) ==
    [new(ticks_per_second) EXCEPT !.first_delay = first_delay,
                                  !.target_delay = target_delay,
                                  !.target_step = n]

\* the result of the k-th producer call on the machine self, k >= 1
nth_call(self, k) ==
    LET run[i \in 0 .. k] ==
            IF i = 0 THEN [self |-> self, ret |-> 0, ovf |-> {}]
            ELSE LET prev == run[i - 1]
                 IN  IF overflow_checks /\ prev.ovf # {} THEN prev
                     ELSE next_delay(prev.self, overflow_checks)
        r == run[k]
    IN  IF overflow_checks /\ r.ovf # {} THEN [res |-> "panic", ret |-> 0]
        ELSE IF r.ret = 0 THEN [res |-> "None", ret |-> 0]
        ELSE [res |-> "Some", ret |-> r.ret]

\* the producer calls since the last setter call, up to the first stop signal
CallsSince ==
    DelaysSince + (IF last.res \in {"None", "panic"} THEN 1 ELSE 0)

\* C21: after a stop signal at current_step = c, set_target_step(T') with
\* T' > c restarts the machine: each producer call up to the next stop signal
\* returns what the same call returns on a freshly constructed machine with
\* the same ticks_per_second, first_delay and target_delay and the target
\* step T' - c, and the stop signal comes with current_step = T'.
C21_RestartAsFresh ==
    /\ RunFromRest /\ mark.op = "set_target_step" /\ mark.stopped
    /\ last.op = "next"
    /\ (mark.stops = 0 \/ (mark.stops = 1 /\ last.res = "None"))
    => /\ [res |-> last.res, ret |-> last.ret]
              = nth_call(fresh(target_step - mark.step), CallsSince)
       /\ last.res = "None" => current_step = target_step

====
